---------------------------- MODULE Spec2Model ----------------------------
(***************************************************************************)
(* Model of App/main/models/SVM.py: the two model classes                   *)
(* SupportVectorClassifier and SupportVectorRegression and the run          *)
(* build_estimator -> train -> evaluate -> save_log on one model object.    *)
(*                                                                          *)
(* The object is the record `self`, one field per attribute.  Every method  *)
(* is an operator from the object (and its arguments) to the object after   *)
(* the call together with the exception that left the method, if any; the   *)
(* actions apply these operators.  Scores are integers in an abstract unit; *)
(* a mean of K of them is the exact rational.  A value returned by a metric *)
(* function of the library is the term "metric applied to these arguments". *)
(***************************************************************************)
EXTENDS Integers, Sequences, FiniteSets, TLC

VARIABLES
    self,        \* the attributes of the object (SVM.py:17-26, 84-92 and BaseModel)
    stage,       \* how far the run is: "new", "configured", "built", "trained",
                 \* "evaluated", "logged", or "aborted" by an exception
    raised,      \* the exception that left the last method called, or "none"
    k_fold,      \* K_fold of the train call of the run (SVM.py:31, 97); 0 before it
    fold_fits,   \* the fold scores cross_validate returned to train (SVM.py:41, 107)
    runs,        \* history: runs begun on the object
    n_evaluate,  \* history: calls of evaluate in the run
    run_start    \* history: the object as the run began

vars == <<self, stage, raised, k_fold, fold_fits, runs, n_evaluate, run_start>>

(***************************************************************************)
(* Bounds of the model.                                                     *)
(***************************************************************************)
MaxK == 3          \* K_fold ranges over 1..MaxK
MaxScore == 1      \* a per-fold score ranges over 0..MaxScore (or its negative)
MaxRows == 3       \* rows of the training set (rows per class, classification)
MaxEvaluate == 2   \* calls of evaluate in one run
MaxRuns == 2       \* runs on one object (SpecRuns)

(***************************************************************************)
(* Values.                                                                  *)
(***************************************************************************)
\* np.NaN
NaN == [kind |-> "nan"]

\* An attribute that no statement of SVM.py has assigned yet.
Unassigned == [kind |-> "unassigned"]

Abs(n) == IF n < 0 THEN -n ELSE n

RECURSIVE GCD(_, _)
GCD(a, b) == IF b = 0 THEN a ELSE GCD(b, a % b)

\* The number n/d (d > 0), in lowest terms.
Num(n, d) ==
    LET g == GCD(Abs(n), d)
    IN  [kind |-> "num", num |-> n \div g, den |-> d \div g]

IsNum(v) == v.kind = "num"

RECURSIVE SumNum(_)
SumNum(arr) == IF arr = <<>> THEN 0 ELSE Head(arr).num + SumNum(Tail(arr))

\* The sum of the scores in the place of their mean.
MeanBroken(arr) ==
    IF \E i \in 1..Len(arr) : ~IsNum(arr[i]) THEN NaN
    ELSE Num(SumNum(arr), 1)

\* np.mean of an array of scores: NaN as soon as one element is NaN.
np_mean(arr) ==
    IF \E i \in 1..Len(arr) : ~IsNum(arr[i]) THEN NaN
    ELSE Num(SumNum(arr), Len(arr))

\* np.argmax with the last maximum instead of the first.
ArgmaxLast(arr) ==
    CHOOSE i \in 0..(Len(arr) - 1) :
        /\ \A j \in 1..Len(arr) : arr[j].num <= arr[i + 1].num
        /\ \A j \in (i + 2)..Len(arr) : arr[j].num < arr[i + 1].num

\* np.argmax: the 0-based index of the first maximum; a NaN counts as the
\* maximum, so the first NaN if there is one.
np_argmax(arr) ==
    IF \E i \in 1..Len(arr) : ~IsNum(arr[i])
    THEN CHOOSE i \in 0..(Len(arr) - 1) :
            /\ ~IsNum(arr[i + 1])
            /\ \A j \in 1..i : IsNum(arr[j])
    ELSE CHOOSE i \in 0..(Len(arr) - 1) :
            /\ \A j \in 1..Len(arr) : arr[j].num <= arr[i + 1].num
            /\ \A j \in 1..i : arr[j].num < arr[i + 1].num


(***************************************************************************)
(* The library calls of SVM.py (scikit-learn, lifelines, pandas), each by   *)
(* what the call does to the values the methods pass and read back.         *)
(***************************************************************************)
\* str.lower on the class-weighting keywords the model draws from.
lower(s) == IF s = "Balanced" THEN "balanced" ELSE s

\* SVC(probability=True, C=..., kernel=..., class_weight=...): the
\* constructor stores its arguments and validates none of them.
SVC(C, kernel, class_weight) ==
    [kind |-> "SVC", probability |-> TRUE, C |-> C, kernel |-> kernel,
     class_weight |-> class_weight]

\* SVR(C=..., kernel=...): likewise.
SVR(C, kernel) ==
    [kind |-> "SVR", probability |-> FALSE, C |-> C, kernel |-> kernel,
     class_weight |-> "none"]

\* The parameter validation estimator.fit performs.
ValidParams(estimator) ==
    /\ estimator.kernel \in {"linear", "poly", "rbf", "sigmoid"}
    /\ estimator.class_weight \in {"balanced", "none"}
    /\ estimator.C > 0

\* A model fitted from `estimator` on a matrix of `cols` columns; `fold` is
\* its 0-based place in cross_validate's list of estimators.
Fitted(kind, estimator, fold, cols) ==
    [kind |-> kind, base |-> estimator, fold |-> fold, cols |-> cols]

\* Whether cv = K_fold can split the rows of y: no split below 2 folds,
\* KFold needs K <= rows, and for a classifier with class labels the split
\* is stratified, which refuses a K above the member count of every class.
CanSplit(estimator, y, cv) ==
    /\ cv >= 2
    /\ cv <= y.rows
    /\ (estimator.kind = "SVC" /\ y.counts # <<>>)
          => \E c \in 1..Len(y.counts) : cv <= y.counts[c]

\* Rows of the validation part of fold `i` (0-based) of KFold(cv) on n rows.
FoldRows(n, cv, i) == (n \div cv) + (IF i < n % cv THEN 1 ELSE 0)

\* One score as the scorer returns it: r2 is not defined on fewer than two
\* rows and comes back as NaN.
Scored(name, v, rows) == IF name = "r2" /\ rows < 2 THEN NaN ELSE Num(v, 1)

\* cross_validate(estimator, X, y, scoring, cv, return_train_score=True,
\* return_estimator=True).  `fits` holds, per fold, the scores the fit of
\* that fold reaches, by position in `scoring`.  The split is checked
\* first; an estimator with an invalid parameter fails every fit, which
\* ends the call with an error.
cross_validate(estimator, X, y, scoring, cv, fits) ==
    IF ~CanSplit(estimator, y, cv)
    THEN [ok |-> FALSE, error |-> "InsufficientData"]
    ELSE IF ~ValidParams(estimator)
    THEN [ok |-> FALSE, error |-> "InvalidConfiguration"]
    ELSE [ok |-> TRUE,
          value |->
            [train |-> [s \in {scoring[1], scoring[2]} |->
                 [i \in 1..cv |->
                    Scored(s, fits[i].train[IF s = scoring[1] THEN 1 ELSE 2],
                           y.rows - FoldRows(y.rows, cv, i - 1))]],
             test |-> [s \in {scoring[1], scoring[2]} |->
                 [i \in 1..cv |->
                    Scored(s, fits[i].test[IF s = scoring[1] THEN 1 ELSE 2],
                           FoldRows(y.rows, cv, i - 1))]],
             estimator |-> [i \in 1..cv |->
                              Fitted("fold", estimator, i - 1, X.cols)]]]

\* RFE(estimator, n_features_to_select, step).fit(X, y): fits the estimator,
\* so an invalid parameter is rejected here.
RFE_fit(estimator, X, y) ==
    IF ~ValidParams(estimator)
    THEN [ok |-> FALSE, error |-> "InvalidConfiguration"]
    ELSE [ok |-> TRUE, value |-> Fitted("RFE", estimator, 0, X.cols)]

\* RFECV(estimator, scoring, cv).fit(X, y) of main/utils/RFECV: feature
\* elimination scored by a K-fold cross-validation.
RFECV_fit(estimator, X, y, cv) ==
    IF ~CanSplit(estimator, y, cv)
    THEN [ok |-> FALSE, error |-> "InsufficientData"]
    ELSE IF ~ValidParams(estimator)
    THEN [ok |-> FALSE, error |-> "InvalidConfiguration"]
    ELSE [ok |-> TRUE, value |-> Fitted("RFECV", estimator, 0, X.cols)]

\* BaseModel.sort_feature_importance: the ranking of the input features,
\* most important first, read off the fitted selector.
sort_feature_importance(s) ==
    [s EXCEPT !.sorted_features = [kind |-> "ranking", of |-> s.best_estimator]]

\* model.predict(X): the predictions, or an error when X has not the
\* columns the model was fitted on.
predict(model, X) ==
    IF model.cols = X.cols
    THEN [ok |-> TRUE, value |-> [kind |-> "pred", model |-> model, X |-> X]]
    ELSE [ok |-> FALSE, error |-> "PredictionFailure"]

\* A metric of the library applied to labels and predictions.
Metric(name, y_true, y_pred) ==
    [kind |-> name, y_true |-> y_true, y_pred |-> y_pred]

accuracy_score(y_true, y_pred) == Metric("accuracy", y_true, y_pred)
f1_score(y_true, y_pred) == Metric("f1_weighted", y_true, y_pred)
\* mean_squared_error(..., squared=False): the root-mean-squared error.
mean_squared_error(y_true, y_pred) == Metric("rmse", y_true, y_pred)
r2_score(y_true, y_pred) == Metric("r2", y_true, y_pred)
concordance_index(event_times, predicted_scores) ==
    Metric("concordance_index", event_times, predicted_scores)

\* pd.DataFrame(data=cache): one column per key of the dict.
DataFrame(cache) ==
    [kind |-> "DataFrame", columns |-> DOMAIN cache, data |-> cache]

\* The outcome of a method: the object after it and the exception, if any.
Return(s) == [self |-> s, raised |-> "none"]
Raise(s, e) == [self |-> s, raised |-> e]

(***************************************************************************)
(* class SupportVectorClassifier(BaseModel)                                 *)
(***************************************************************************)
DefaultC == 1
DefaultFeaturesToSelect == 1
DefaultRfeStep == 1

\* BaseModel.__init__: the attributes the methods below read before any of
\* them has assigned them.
BaseModel_init ==
    [model_name |-> "BaseModel", class_weight |-> Unassigned,
     c_param |-> DefaultC, kernel |-> "linear",
     n_features_to_select |-> DefaultFeaturesToSelect,
     rfe_step |-> DefaultRfeStep, rfe |-> FALSE,
     input_features |-> Unassigned, label_feature |-> Unassigned,
     X_train |-> Unassigned, Y_train |-> Unassigned,
     X_test |-> Unassigned, Y_test |-> Unassigned,
     estimator |-> Unassigned, selector |-> Unassigned,
     best_estimator |-> Unassigned, sorted_features |-> Unassigned,
     train_acc |-> Unassigned, train_roc_acu |-> Unassigned,
     val_acc |-> Unassigned, val_roc_auc |-> Unassigned,
     train_r2 |-> Unassigned, val_r2 |-> Unassigned,
     test_acc |-> Unassigned, test_f1 |-> Unassigned,
     test_r2 |-> Unassigned, train_ci |-> Unassigned, test_ci |-> Unassigned,
     Y_train_pred |-> Unassigned, Y_test_pred |-> Unassigned,
     log |-> Unassigned]

SupportVectorClassifier_init ==
    [BaseModel_init EXCEPT
        !.model_name = "Support Vector Classifier",
        !.class_weight = "balanced",
        !.c_param = DefaultC,
        !.kernel = "linear",
        !.n_features_to_select = DefaultFeaturesToSelect,
        !.rfe_step = DefaultRfeStep]

\* build_estimator that validates the configuration it is given.
SVC_build_estimator_Validating(s) ==
    IF ~ValidParams(SVC(s.c_param, s.kernel, lower(s.class_weight)))
    THEN Raise(s, "InvalidConfiguration")
    ELSE Return([s EXCEPT !.estimator = SVC(s.c_param, s.kernel, lower(s.class_weight))])

SupportVectorClassifier_build_estimator(s) ==
    Return([s EXCEPT !.estimator = SVC(s.c_param, s.kernel, lower(s.class_weight))])

SupportVectorClassifier_train(s, K_fold, fits) ==
    IF s.rfe = TRUE
    THEN LET s1 == [s EXCEPT !.selector =
                       Fitted("RFE unfitted", s.estimator, 0, 0)]
             fit == RFE_fit(s.estimator, s.X_train, s.Y_train)
         IN  IF ~fit.ok THEN Raise(s1, fit.error)
             ELSE LET s2 == sort_feature_importance(
                               [s1 EXCEPT !.selector = fit.value,
                                          !.best_estimator = fit.value])
                  IN  Return([s2 EXCEPT !.train_acc = NaN, !.train_r2 = NaN,
                                        !.val_acc = NaN, !.val_r2 = NaN])
    ELSE LET cv == cross_validate(s.estimator, s.X_train, s.Y_train,
                                  <<"accuracy", "roc_auc">>, K_fold, fits)
         IN  IF ~cv.ok THEN Raise(s, cv.error)
             ELSE LET k_fold_cm == cv.value
                      validation_performance == k_fold_cm.test["roc_auc"]
                  IN  Return([s EXCEPT
                        !.train_acc = np_mean(k_fold_cm.train["accuracy"]),
                        !.train_roc_acu = np_mean(k_fold_cm.train["roc_auc"]),
                        !.val_acc = np_mean(k_fold_cm.test["accuracy"]),
                        !.val_roc_auc = np_mean(k_fold_cm.test["roc_auc"]),
                        !.best_estimator =
                            k_fold_cm.estimator[np_argmax(validation_performance) + 1]])

\* evaluate that fits the estimator again before it predicts.
SVC_evaluate_Refits(s) ==
    LET s0 == [s EXCEPT !.best_estimator =
                  Fitted("refit", s.estimator, 0, s.X_train.cols)]
        p_train == predict(s0.best_estimator, s0.X_train)
    IN  IF ~p_train.ok THEN Raise(s0, p_train.error)
        ELSE LET s1 == [s0 EXCEPT !.Y_train_pred = p_train.value]
                 p_test == predict(s1.best_estimator, s1.X_test)
             IN  IF ~p_test.ok THEN Raise(s1, p_test.error)
                 ELSE LET s2 == [s1 EXCEPT !.Y_test_pred = p_test.value]
                      IN  Return([s2 EXCEPT
                            !.test_acc = accuracy_score(s2.Y_test, s2.Y_test_pred),
                            !.test_f1 = f1_score(s2.Y_test, s2.Y_test_pred)])

SupportVectorClassifier_evaluate(s) ==
    LET p_train == predict(s.best_estimator, s.X_train)
    IN  IF ~p_train.ok THEN Raise(s, p_train.error)
        ELSE LET s1 == [s EXCEPT !.Y_train_pred = p_train.value]
                 p_test == predict(s1.best_estimator, s1.X_test)
             IN  IF ~p_test.ok THEN Raise(s1, p_test.error)
                 ELSE LET s2 == [s1 EXCEPT !.Y_test_pred = p_test.value]
                      IN  Return([s2 EXCEPT
                            !.test_acc = accuracy_score(s2.Y_test, s2.Y_test_pred),
                            !.test_f1 = f1_score(s2.Y_test, s2.Y_test_pred)])

\* save_log that writes the feature ranking in either mode.
SVC_save_log_AlwaysRanking(s) ==
    Return([s EXCEPT !.log = DataFrame(
        [model |-> s.model_name, input_features |-> s.input_features,
         label_feature |-> s.label_feature, class_weight |-> s.class_weight,
         c_param |-> s.c_param, kernel |-> s.kernel,
         train_acc |-> s.train_acc, train_roc_acu |-> s.train_roc_acu,
         val_acc |-> s.val_acc, val_roc_auc |-> s.val_roc_auc,
         test_acc |-> s.test_acc, test_f1 |-> s.test_f1,
         features_sorted_by_importance |-> s.sorted_features])])

SupportVectorClassifier_save_log(s) ==
    LET cache == [model |-> s.model_name, input_features |-> s.input_features,
                  label_feature |-> s.label_feature,
                  class_weight |-> s.class_weight,
                  c_param |-> s.c_param, kernel |-> s.kernel,
                  train_acc |-> s.train_acc, train_roc_acu |-> s.train_roc_acu,
                  val_acc |-> s.val_acc, val_roc_auc |-> s.val_roc_auc,
                  test_acc |-> s.test_acc, test_f1 |-> s.test_f1]
        cache1 == IF s.rfe
                  THEN ("features_sorted_by_importance" :> s.sorted_features) @@ cache
                  ELSE cache
    IN  Return([s EXCEPT !.log = DataFrame(cache1)])

(***************************************************************************)
(* class SupportVectorRegression(BaseModel)                                 *)
(***************************************************************************)
SupportVectorRegression_init ==
    [BaseModel_init EXCEPT
        !.model_name = "Support Vector Regression",
        !.c_param = DefaultC,
        !.kernel = "linear",
        !.n_features_to_select = DefaultFeaturesToSelect,
        !.rfe_step = DefaultRfeStep]

SupportVectorRegression_build_estimator(s) ==
    Return([s EXCEPT !.estimator = SVR(s.c_param, s.kernel)])

SupportVectorRegression_train(s, K_fold, fits) ==
    IF s.rfe
    THEN LET s1 == [s EXCEPT !.selector =
                       Fitted("RFECV unfitted", s.estimator, 0, 0)]
             fit == RFECV_fit(s.estimator, s.X_train, s.Y_train, K_fold)
         IN  IF ~fit.ok THEN Raise(s1, fit.error)
             ELSE LET s2 == sort_feature_importance(
                               [s1 EXCEPT !.selector = fit.value,
                                          !.best_estimator = fit.value])
                  IN  Return([s2 EXCEPT !.train_acc = NaN, !.train_r2 = NaN,
                                        !.val_acc = NaN, !.val_r2 = NaN])
    ELSE LET cv == cross_validate(s.estimator, s.X_train, s.Y_train,
                                  <<"neg_root_mean_squared_error", "r2">>,
                                  K_fold, fits)
         IN  IF ~cv.ok THEN Raise(s, cv.error)
             ELSE LET k_fold_cm == cv.value
                      validation_performance ==
                          k_fold_cm.test["neg_root_mean_squared_error"]
                  IN  Return([s EXCEPT
                        !.train_acc = np_mean(k_fold_cm.train["neg_root_mean_squared_error"]),
                        !.train_r2 = np_mean(k_fold_cm.train["r2"]),
                        !.val_acc = np_mean(k_fold_cm.test["neg_root_mean_squared_error"]),
                        !.val_r2 = np_mean(k_fold_cm.test["r2"]),
                        !.best_estimator =
                            k_fold_cm.estimator[np_argmax(validation_performance) + 1]])

SupportVectorRegression_evaluate(s) ==
    LET p_train == predict(s.best_estimator, s.X_train)
    IN  IF ~p_train.ok THEN Raise(s, p_train.error)
        ELSE LET s1 == [s EXCEPT !.Y_train_pred = p_train.value]
                 p_test == predict(s1.best_estimator, s1.X_test)
             IN  IF ~p_test.ok THEN Raise(s1, p_test.error)
                 ELSE LET s2 == [s1 EXCEPT !.Y_test_pred = p_test.value]
                      IN  Return([s2 EXCEPT
                            !.train_acc = mean_squared_error(s2.Y_train, s2.Y_train_pred),
                            !.test_acc = mean_squared_error(s2.Y_test, s2.Y_test_pred),
                            !.train_r2 = r2_score(s2.Y_train, s2.Y_train_pred),
                            !.test_r2 = r2_score(s2.Y_test, s2.Y_test_pred),
                            !.train_ci = concordance_index(s2.Y_train, s2.Y_train_pred),
                            !.test_ci = concordance_index(s2.Y_test, s2.Y_test_pred)])

SupportVectorRegression_save_log(s) ==
    LET cache == [model |-> s.model_name, input_features |-> s.input_features,
                  label_feature |-> s.label_feature, class_weight |-> NaN,
                  c_param |-> s.c_param, kernel |-> s.kernel,
                  train_acc |-> s.train_acc, train_r2 |-> s.train_r2,
                  val_acc |-> s.val_acc, val_r2 |-> s.val_r2,
                  test_acc |-> s.test_acc, test_r2 |-> s.test_r2,
                  train_ci |-> s.train_ci, test_ci |-> s.test_ci]
        cache1 == IF s.rfe
                  THEN ("features_sorted_by_importance" :> s.sorted_features) @@ cache
                  ELSE cache
    IN  Return([s EXCEPT !.log = DataFrame(cache1)])

(***************************************************************************)
(* The run on one object: the caller configures the object, then calls      *)
(* build_estimator, train, evaluate and save_log in this order and stops    *)
(* the run at the first exception.                                          *)
(***************************************************************************)
IsClassifier(s) == s.model_name = "Support Vector Classifier"

build_estimator(s) ==
    IF IsClassifier(s) THEN SupportVectorClassifier_build_estimator(s)
    ELSE SupportVectorRegression_build_estimator(s)

train(s, K_fold, fits) ==
    IF IsClassifier(s) THEN SupportVectorClassifier_train(s, K_fold, fits)
    ELSE SupportVectorRegression_train(s, K_fold, fits)

evaluate(s) ==
    IF IsClassifier(s) THEN SupportVectorClassifier_evaluate(s)
    ELSE SupportVectorRegression_evaluate(s)

save_log(s) ==
    IF IsClassifier(s) THEN SupportVectorClassifier_save_log(s)
    ELSE SupportVectorRegression_save_log(s)

\* The inputs of a run.
Kernels == {"linear", "unknown"}
ClassWeights == {"Balanced", "unknown"}

\* The label vector of `rows` rows (classification: `rows` rows of each of
\* two classes, so that every fold of a feasible split holds both classes).
Labels(s, rows) ==
    IF IsClassifier(s) THEN [rows |-> 2 * rows, counts |-> <<rows, rows>>]
    ELSE [rows |-> rows, counts |-> <<>>]

\* The caller's assignments before a run: the mode flag, the hyperparameters
\* and the dataset split.
configure(s, rfe, kernel, class_weight, rows, test_cols) ==
    [s EXCEPT !.rfe = rfe, !.kernel = kernel,
              !.class_weight = IF IsClassifier(s) THEN class_weight ELSE @,
              !.input_features = <<"x1", "x2">>, !.label_feature = "y",
              !.X_train = [rows |-> Labels(s, rows).rows, cols |-> 2],
              !.Y_train = Labels(s, rows),
              !.X_test = [rows |-> Labels(s, 1).rows, cols |-> test_cols],
              !.Y_test = Labels(s, 1)]

\* The scores one fold can reach, by position in `scoring`: validation
\* scores over the whole range, the train score of a fold its complement.
\* The regression's first score is a negative RMSE.
FoldFits(s, seconds) ==
    IF IsClassifier(s)
    THEN {[train |-> <<MaxScore - a, MaxScore - r>>, test |-> <<a, r>>] :
             a \in seconds, r \in 0..MaxScore}
    ELSE {[train |-> <<e - MaxScore, MaxScore - q>>, test |-> <<-e, q>>] :
             e \in 0..MaxScore, q \in seconds}

\* Whether train reads the fold scores: Mode B on a feasible split of a
\* valid estimator.
ReadsFits(s, K_fold) ==
    /\ ~s.rfe
    /\ CanSplit(s.estimator, s.Y_train, K_fold)
    /\ ValidParams(s.estimator)

Init ==
    /\ \/ self = SupportVectorClassifier_init
       \/ self = SupportVectorRegression_init
    /\ stage = "new"
    /\ raised = "none"
    /\ k_fold = 0
    /\ fold_fits = <<>>
    /\ runs = 0
    /\ n_evaluate = 0
    /\ run_start = self

Configure(maxRuns, rowsSet) ==
    /\ stage \in {"new", "logged", "aborted"}
    /\ runs < maxRuns
    /\ \E rfe \in BOOLEAN, kernel \in Kernels, class_weight \in ClassWeights,
          rows \in rowsSet, test_cols \in {2, 3} :
          /\ IsClassifier(self) \/ class_weight = "Balanced"
          /\ self' = configure(self, rfe, kernel, class_weight, rows, test_cols)
    /\ stage' = "configured"
    /\ raised' = "none"
    /\ k_fold' = 0
    /\ fold_fits' = <<>>
    /\ runs' = runs + 1
    /\ n_evaluate' = 0
    /\ run_start' = self'

BuildEstimator ==
    /\ stage = "configured"
    /\ LET r == build_estimator(self)
       IN  /\ self' = r.self
           /\ raised' = r.raised
           /\ stage' = IF r.raised = "none" THEN "built" ELSE "aborted"
    /\ UNCHANGED <<k_fold, fold_fits, runs, n_evaluate, run_start>>

Train(Ks, seconds) ==
    /\ stage = "built"
    /\ \E K_fold \in Ks :
         \E fits \in IF ReadsFits(self, K_fold)
                     THEN [1..K_fold -> FoldFits(self, seconds)] ELSE {<<>>} :
            LET r == train(self, K_fold, fits)
            IN  /\ self' = r.self
                /\ raised' = r.raised
                /\ stage' = IF r.raised = "none" THEN "trained" ELSE "aborted"
                /\ k_fold' = K_fold
                /\ fold_fits' = fits
    /\ UNCHANGED <<runs, n_evaluate, run_start>>

Evaluate ==
    /\ stage \in {"trained", "evaluated"}
    /\ n_evaluate < MaxEvaluate
    /\ LET r == evaluate(self)
       IN  /\ self' = r.self
           /\ raised' = r.raised
           /\ stage' = IF r.raised = "none" THEN "evaluated" ELSE "aborted"
    /\ n_evaluate' = n_evaluate + 1
    /\ UNCHANGED <<k_fold, fold_fits, runs, run_start>>

SaveLog ==
    /\ stage = "evaluated"
    /\ LET r == save_log(self)
       IN  /\ self' = r.self
           /\ raised' = r.raised
           /\ stage' = IF r.raised = "none" THEN "logged" ELSE "aborted"
    /\ UNCHANGED <<k_fold, fold_fits, runs, n_evaluate, run_start>>

\* One run on a fresh object, over every K_fold and every fold score.
ConfigureOnce == Configure(1, 1..MaxRows)
TrainAny == Train(1..MaxK, 0..MaxScore)

Next ==
    \/ ConfigureOnce
    \/ BuildEstimator
    \/ TrainAny
    \/ Evaluate
    \/ SaveLog

Spec == Init /\ [][Next]_vars

\* Up to MaxRuns runs on the same object, on two folds.
ConfigureAgain == Configure(MaxRuns, {2})
TrainTwoFolds == Train({2}, {0})

NextRuns ==
    \/ ConfigureAgain
    \/ BuildEstimator
    \/ TrainTwoFolds
    \/ Evaluate
    \/ SaveLog

SpecRuns == Init /\ [][NextRuns]_vars

(***************************************************************************)
(* Properties.  A run is in Mode A when self.rfe holds and in Mode B        *)
(* otherwise; fold_fits is not empty exactly when train has run the         *)
(* cross-validation of Mode B to its end in the current run.                *)
(***************************************************************************)
Classifier == IsClassifier(self)
CrossValidated == fold_fits # <<>>

\* The place of the primary selection metric in `scoring`: roc_auc for the
\* classification, neg_root_mean_squared_error for the regression.
PrimaryAt == IF Classifier THEN 2 ELSE 1

\* The primary validation score of fold i (1-based) and the model fitted
\* on that fold.
PrimaryScore(i) == fold_fits[i].test[PrimaryAt]
FoldModel(i) == Fitted("fold", self.estimator, i - 1, self.X_train.cols)

\* Fold i is the first fold of maximal primary validation score.
IsBestFold(i) ==
    /\ \A j \in 1..k_fold : PrimaryScore(j) <= PrimaryScore(i)
    /\ \A j \in 1..(i - 1) : PrimaryScore(j) < PrimaryScore(i)
    /\ Classifier \/ \A j \in 1..k_fold : -PrimaryScore(i) <= -PrimaryScore(j)

\* C1: in Mode B, for both classes and every sequence of K per-fold
\* validation scores, best_estimator is the model of the fold whose primary
\* validation score (ROC-AUC, or negative RMSE: the smallest RMSE) is
\* maximal, and among several such folds the one of lowest index.
C1_BestFoldSelected ==
    CrossValidated =>
        \E i \in 1..k_fold : IsBestFold(i) /\ self.best_estimator = FoldModel(i)

\* C1, witness: three folds, the maximum shared by the second and the third
\* and not reached by the first; the second fold's model is selected.
C1_Witness ==
    /\ CrossValidated
    /\ k_fold = 3
    /\ PrimaryScore(1) < PrimaryScore(2)
    /\ PrimaryScore(2) = PrimaryScore(3)
    /\ self.best_estimator = FoldModel(2)

\* The train/validation metric columns of the log of the class.
SecondTrain == IF Classifier THEN "train_roc_acu" ELSE "train_r2"
SecondVal == IF Classifier THEN "val_roc_auc" ELSE "val_r2"
TrainValColumns == {"train_acc", "val_acc", SecondTrain, SecondVal}

\* C2: in a run with rfe true every train/validation metric the run logs is
\* the NaN sentinel, and in a run with rfe false none of them is.  (A
\* metric that no statement of SVM.py has assigned since the constructor is
\* not held against the claim.)
C2_ModeExclusive ==
    stage = "logged" =>
        /\ self.rfe =>
              \A c \in TrainValColumns : self.log.data[c] \in {NaN, Unassigned}
        /\ ~self.rfe => \A c \in TrainValColumns : self.log.data[c] # NaN

\* The sum of the scores of the folds, `side` being "train" or "test".
RECURSIVE SumScores(_, _, _)
SumScores(side, at, i) ==
    IF i = 0 THEN 0
    ELSE (IF side = "train" THEN fold_fits[i].train[at] ELSE fold_fits[i].test[at])
         + SumScores(side, at, i - 1)

\* A score that is undefined on some fold: r2 on a part of fewer than two rows.
UndefinedOnSomeFold(side, at) ==
    /\ ~Classifier
    /\ at = 2
    /\ \E i \in 1..k_fold :
          LET held == FoldRows(self.Y_train.rows, k_fold, i - 1)
          IN  (IF side = "test" THEN held ELSE self.Y_train.rows - held) < 2

\* v is the arithmetic mean over the K folds of the scores at place `at`
\* (NaN when the score is undefined on a fold).
IsFoldMean(v, side, at) ==
    IF UndefinedOnSomeFold(side, at) THEN v = NaN
    ELSE /\ v.kind = "num"
         /\ v.den > 0
         /\ v.num * k_fold = v.den * SumScores(side, at, k_fold)

BestFoldModelKept ==
    \E i \in 1..k_fold : IsBestFold(i) /\ self.best_estimator = FoldModel(i)

ConfigColumns ==
    {"model", "input_features", "label_feature", "class_weight", "c_param",
     "kernel"}
ClassificationColumns ==
    ConfigColumns \cup {"train_acc", "train_roc_acu", "val_acc", "val_roc_auc",
                        "test_acc", "test_f1"}
RegressionColumns ==
    ConfigColumns \cup {"train_acc", "train_r2", "val_acc", "val_r2",
                        "test_acc", "test_r2", "train_ci", "test_ci"}
ExpectedColumns ==
    (IF Classifier THEN ClassificationColumns ELSE RegressionColumns)
    \cup (IF self.rfe THEN {"features_sorted_by_importance"} ELSE {})

IsValidationRMSE(v) ==
    /\ v.kind = "num"
    /\ v.num >= 0
    /\ v.num * k_fold = v.den * (-SumScores("test", 1, k_fold))

\* C5: in the regression's log train_acc, val_acc and test_acc each hold a
\* root-mean-squared error, a non-negative quantity, of the train, the
\* validation and the test data (stated for the runs that cross-validate).
C5_RegressionLogRMSE ==
    (stage = "logged" /\ ~Classifier /\ ~self.rfe) =>
        /\ self.log.data["train_acc"] =
              Metric("rmse", self.Y_train, self.Y_train_pred)
        /\ self.log.data["test_acc"] =
              Metric("rmse", self.Y_test, self.Y_test_pred)
        /\ IsValidationRMSE(self.log.data["val_acc"])

\* train has returned or raised in the current run.
TrainCalled == k_fold # 0
TrainFailed == stage = "aborted" /\ TrainCalled /\ n_evaluate = 0

\* C6: in Mode B, train with K_fold equal to the rows of the training set
\* completes without error, and with K_fold above them it fails with
\* InsufficientData, which reaches the caller without a best_estimator set
\* by the call (stated for a valid estimator and at least two folds).
C6_FoldBoundary ==
    (TrainCalled /\ ~self.rfe /\ ValidParams(self.estimator) /\ k_fold >= 2) =>
        /\ k_fold = self.Y_train.rows => ~TrainFailed
        /\ k_fold > self.Y_train.rows =>
              /\ TrainFailed
              /\ raised = "InsufficientData"
              /\ self.best_estimator = run_start.best_estimator

\* The configuration and the dataset split of the object.
Inputs(s) ==
    <<s.model_name, s.class_weight, s.c_param, s.kernel, s.rfe,
      s.n_features_to_select, s.rfe_step, s.input_features, s.label_feature,
      s.X_train, s.Y_train, s.X_test, s.Y_test>>

\* C7: evaluate leaves best_estimator, the estimator, the configuration and
\* the dataset split as they are, and a further evaluate on the same
\* selected model and split leaves every field of the object, the metrics
\* among them, as the one before left it.
C7_EvaluateRepeatable ==
    [][(n_evaluate' = n_evaluate + 1) =>
          /\ self'.best_estimator = self.best_estimator
          /\ self'.estimator = self.estimator
          /\ self'.selector = self.selector
          /\ Inputs(self') = Inputs(self)
          /\ (n_evaluate >= 1 /\ stage = "evaluated") =>
                (self' = self /\ stage' = "evaluated" /\ raised' = "none")]_vars

\* C7, witness: evaluate has been called twice in a run and has succeeded.
C7_Witness ==
    /\ n_evaluate = 2
    /\ stage = "evaluated"
    /\ self.Y_test_pred # Unassigned
    /\ self.test_acc # Unassigned

\* The estimator build_estimator makes of the configuration.
Built(s) ==
    IF IsClassifier(s) THEN SVC(s.c_param, s.kernel, lower(s.class_weight))
    ELSE SVR(s.c_param, s.kernel)
BuildCalled == stage \notin {"new", "configured"}

\* C8 as stated: for a configuration with an unrecognized kernel or
\* weighting the build step itself raises InvalidConfiguration: no
\* untrained model is produced and train is never reached.
C8_BuildRejects ==
    (BuildCalled /\ ~ValidParams(Built(self))) =>
        /\ stage = "aborted"
        /\ raised = "InvalidConfiguration"
        /\ ~TrainCalled
        /\ self.estimator = run_start.estimator

\* C8, amended: build_estimator validates nothing: for every configuration,
\* an unrecognized kernel or weighting included, it raises nothing and
\* stores an untrained estimator that carries the kernel and the
\* lower-cased weighting as given, and the run goes on to train; no run is
\* aborted before train is called.
C8_BuildStoresUnvalidated ==
    /\ BuildCalled =>
          /\ self.estimator = Built(self)
          /\ self.estimator.kernel = self.kernel
          /\ stage = "aborted" => TrainCalled
    /\ stage = "configured" => build_estimator(self).raised = "none"

\* C8, witness: the untrained estimator of an unrecognized kernel, built
\* and about to be trained.
C8_Witness ==
    /\ stage = "built"
    /\ self.kernel = "unknown"
    /\ self.estimator # Unassigned
    /\ self.estimator.kernel = "unknown"
    /\ raised = "none"

\* The prediction and metric attributes of the object.
ResultAttributes ==
    {"Y_train_pred", "Y_test_pred", "train_acc", "train_roc_acu", "val_acc",
     "val_roc_auc", "train_r2", "val_r2", "test_acc", "test_f1", "test_r2",
     "train_ci", "test_ci"}

\* C9: when train or evaluate fails, no prediction or metric attribute
\* written earlier in the failing run is left to be observed: each holds
\* what it held when the run began.
C9_NoPartialResults ==
    stage = "aborted" =>
        \A a \in ResultAttributes : self[a] = run_start[a]

\* The run of the current configuration, split, K_fold and fold scores on
\* an object fresh from its constructor.
FreshObject ==
    LET s0 == IF Classifier THEN SupportVectorClassifier_init
              ELSE SupportVectorRegression_init
    IN  [s0 EXCEPT !.class_weight = self.class_weight, !.kernel = self.kernel,
                   !.rfe = self.rfe, !.input_features = self.input_features,
                   !.label_feature = self.label_feature,
                   !.X_train = self.X_train, !.Y_train = self.Y_train,
                   !.X_test = self.X_test, !.Y_test = self.Y_test]
FreshRun ==
    save_log(evaluate(train(build_estimator(FreshObject).self,
                            k_fold, fold_fits).self).self).self

\* C10: no state carries over between runs on one object: the selected
\* model and the log of a run are those the run's configuration and split
\* alone determine, the ones a fresh object yields.
C10_NoCarryOver ==
    stage = "logged" =>
        /\ self.best_estimator = FreshRun.best_estimator
        /\ self.log = FreshRun.log

=============================================================================
